---------------------------- MODULE Spec2Model ----------------------------
(***************************************************************************)
(* A model of two classes of geoist:                                       *)
(*                                                                         *)
(*   geoist.inversion.epic2d.Homogeneous      (predicted, jacobian)        *)
(*   geoist.snoopy...derivative_detector.DerivativeDetector                *)
(*                               (_compute_derivatives, _set_scores)       *)
(*                                                                         *)
(* Numbers.  Python ints are TLA+ integers.  A Python/numpy float is a     *)
(* fixed-point number: the integer f stands for the real f / SCALE, and    *)
(* every float operation rounds its exact result to the nearest multiple   *)
(* of 1 / SCALE, as IEEE arithmetic rounds to the nearest double.  SCALE   *)
(* is a multiple of every velocity of the model, so that 1/vs and 1/vp     *)
(* carry no rounding error of their own.  numpy's float division does not  *)
(* raise on a zero divisor: it yields nan (0/0) or +-inf, which the model  *)
(* keeps as values of their own.  Python's scalar division raises          *)
(* ZeroDivisionError.                                                      *)
(***************************************************************************)
EXTENDS Integers, Sequences, FiniteSets

VARIABLES
    self,        \* the Homogeneous object: data, recs, vp, vs, ndata, nparams
    last,        \* the last predicted/jacobian call: arguments and outcome
    memo,        \* an earlier call, kept to compare later calls against
    det,         \* the DerivativeDetector object
    dcall        \* the last DerivativeDetector method run, and its outcome

vars == <<self, last, memo, det, dcall>>

---------------------------------------------------------------------------
(* Bounds of the model *)

MaxRecs == 2
MaxLen == 3

(* Fixed-point resolution: a float f is the integer f * SCALE. *)
SCALE == 6 * 10

(* Receiver positions, candidate epicenter coordinates, velocity pairs     *)
(* <<vp, vs>> and observation values the model draws its inputs from.      *)
RecPoints == {<<0, 0>>, <<3, 0>>}
ParamPoints == RecPoints \cup {<<1, 3>>, <<3, 4>>}
Velocities == {<<2, 1>>, <<1, 2>>, <<3, 3>>}
DataVals == {SCALE \div 2}

SeqsUpTo(S, n) == UNION {[1..k -> S] : k \in 0..n}

(* Parameter vectors handed to predicted/jacobian: the 2-vectors of        *)
(* ParamPoints, and vectors of length 0, 1 and 3.                          *)
Params ==
    ParamPoints \cup {<<>>, <<1>>, <<0, 1, 3>>}

---------------------------------------------------------------------------
(* Float arithmetic *)

Abs(a) == IF a < 0 THEN -a ELSE a

Sign(a) == IF a < 0 THEN -1 ELSE IF a = 0 THEN 0 ELSE 1

(* a / b rounded to the nearest integer, halves away from zero (b # 0). *)
RDiv(a, b) ==
    Sign(a) * Sign(b) * ((2 * Abs(a) + Abs(b)) \div (2 * Abs(b)))

RECURSIVE SqrtSearch(_, _, _)
SqrtSearch(n, lo, hi) ==
    IF lo >= hi THEN lo
    ELSE LET mid == (lo + hi + 1) \div 2
         IN  IF mid * mid <= n THEN SqrtSearch(n, mid, hi)
             ELSE SqrtSearch(n, lo, mid - 1)

(* The integer nearest to the square root of n >= 0. *)
ISqrt(n) ==
    LET r == SqrtSearch(n, 0, n \div 2 + 1)
    IN  IF n - r * r > r THEN r + 1 ELSE r

Float(n) == n * SCALE

FMul(a, b) == RDiv(a * b, SCALE)

FSqrt(a) == ISqrt(a * SCALE)

(* Values a numpy float array holds: a number, nan, or a signed infinity. *)
Num(v) == [k |-> "num", v |-> v]
NaN == [k |-> "nan", v |-> 0]
Inf(s) == [k |-> "inf", v |-> s]

(* numpy's a / b on floats: no exception on a zero divisor. *)
NpDiv(a, b) ==
    IF b # 0 THEN Num(RDiv(a * SCALE, b))
    ELSE IF a = 0 THEN NaN
    ELSE Inf(Sign(a))

---------------------------------------------------------------------------
(* geoist.inversion.epic2d.Homogeneous *)

NoResult == <<>>

(* The outcome of a method call: the object and the caller's vector after  *)
(* the call, the exception raised ("none" when it returned) and the value  *)
(* returned.                                                               *)
Returned(obj, p, ret) == [self |-> obj, p |-> p, err |-> "none", ret |-> ret]
Raised(obj, p, exc) == [self |-> obj, p |-> p, err |-> exc, ret |-> NoResult]

(* Misfit.__init__(data, nparams, islinear): the base class keeps the      *)
(* observation vector, its size and the number of parameters.              *)
MisfitInit(data, nparams) ==
    [data |-> data, ndata |-> Len(data), nparams |-> nparams]

(* Homogeneous.__init__(ttres, recs, vp, vs) *)
HomogeneousInit(ttres, recs, vp, vs) ==
    LET base == MisfitInit(ttres, 2)
    IN  [data |-> base.data, ndata |-> base.ndata, nparams |-> base.nparams,
         recs |-> recs, vp |-> vp, vs |-> vs]

(* `x, y = p`: unpacking raises ValueError unless p has exactly 2 items. *)
UnpackLoose(p) == IF Len(p) >= 2 THEN "none" ELSE "ValueError"
Unpack(p) == IF Len(p) = 2 THEN "none" ELSE "ValueError"

(* np.array(recs) of an empty list is 1-dimensional (shape (0,)), and      *)
(* recs[:, 0] on it raises IndexError; of N >= 1 pairs it has shape (N, 2).*)
ColumnIndex(recs) == IF Len(recs) = 0 THEN "IndexError" ELSE "none"

(* alpha = 1/self.vs - 1/self.vp *)
AlphaSwapped(obj) ==
    RDiv(Float(1) * SCALE, Float(obj.vp)) - RDiv(Float(1) * SCALE, Float(obj.vs))
Alpha(obj) ==
    RDiv(Float(1) * SCALE, Float(obj.vs)) - RDiv(Float(1) * SCALE, Float(obj.vp))

(* np.sqrt((recs[:, 0] - x)**2 + (recs[:, 1] - y)**2), one float per       *)
(* receiver.                                                               *)
Distances(recs, x, y) ==
    [i \in 1..Len(recs) |->
        FSqrt(Float((recs[i][1] - x) * (recs[i][1] - x)
                    + (recs[i][2] - y) * (recs[i][2] - y)))]

(* Homogeneous.predicted(p) *)
predicted(obj, p) ==
    IF Unpack(p) # "none" THEN Raised(obj, p, Unpack(p))
    ELSE IF ColumnIndex(obj.recs) # "none"
    THEN Raised(obj, p, ColumnIndex(obj.recs))
    ELSE LET x == p[1]
             y == p[2]
             alpha == Alpha(obj)
             sqrt == Distances(obj.recs, x, y)
             pred == [i \in 1..Len(sqrt) |-> FMul(alpha, sqrt[i])]
         IN  Returned(obj, p, pred)

(* jac[:, c] = col: a column of ndata rows takes a vector of ndata items,  *)
(* or a vector of one item broadcast to every row; any other length raises *)
(* ValueError.                                                             *)
CanAssignColumn(ndata, col) == Len(col) = ndata \/ Len(col) = 1

AssignColumn(jac, c, col) ==
    [i \in 1..Len(jac) |->
        [jac[i] EXCEPT ![c] = IF Len(col) = 1 THEN col[1] ELSE col[i]]]

(* jacobian with its second assignment written to column 0 again. *)
jacobianColumnTwice(obj, p, garbage) ==
    IF Unpack(p) # "none" THEN Raised(obj, p, Unpack(p))
    ELSE IF ColumnIndex(obj.recs) # "none"
    THEN Raised(obj, p, ColumnIndex(obj.recs))
    ELSE LET x == p[1]
             y == p[2]
             alpha == Alpha(obj)
             sqrt == Distances(obj.recs, x, y)
             empty == [i \in 1..obj.ndata |-> [c \in 1..obj.nparams |-> garbage]]
             col0 == [i \in 1..Len(sqrt) |->
                        NpDiv(-alpha * (obj.recs[i][1] - x), sqrt[i])]
             col1 == [i \in 1..Len(sqrt) |->
                        NpDiv(-alpha * (obj.recs[i][2] - y), sqrt[i])]
         IN  IF ~CanAssignColumn(obj.ndata, col0) THEN Raised(obj, p, "ValueError")
             ELSE Returned(obj, p,
                           AssignColumn(AssignColumn(empty, 1, col0), 1, col1))

(* Homogeneous.jacobian(p); garbage is what np.empty's memory holds. *)
jacobian(obj, p, garbage) ==
    IF Unpack(p) # "none" THEN Raised(obj, p, Unpack(p))
    ELSE IF ColumnIndex(obj.recs) # "none"
    THEN Raised(obj, p, ColumnIndex(obj.recs))
    ELSE LET x == p[1]
             y == p[2]
             alpha == Alpha(obj)
             sqrt == Distances(obj.recs, x, y)
             empty == [i \in 1..obj.ndata |-> [c \in 1..obj.nparams |-> garbage]]
             col0 == [i \in 1..Len(sqrt) |->
                        NpDiv(-alpha * (obj.recs[i][1] - x), sqrt[i])]
             col1 == [i \in 1..Len(sqrt) |->
                        NpDiv(-alpha * (obj.recs[i][2] - y), sqrt[i])]
         IN  IF ~CanAssignColumn(obj.ndata, col0) THEN Raised(obj, p, "ValueError")
             ELSE Returned(obj, p,
                           AssignColumn(AssignColumn(empty, 1, col0), 2, col1))

Garbage == {Num(0), Num(-SCALE)}

NoCall == [op |-> "none", p |-> <<>>, pAfter |-> <<>>, err |-> "none",
           ret |-> NoResult]

(* The remembered call after one more call: kept as it is and marked as an *)
(* earlier call, or replaced by the call just made.                        *)
Remember(keep, old, new) ==
    IF keep /\ old.call.op # "none" THEN [call |-> old.call, earlier |-> TRUE]
    ELSE [call |-> new, earlier |-> FALSE]

CallRecord(op, p, out) ==
    [op |-> op, p |-> p, pAfter |-> out.p, err |-> out.err, ret |-> out.ret]


---------------------------------------------------------------------------
(* geoist.snoopy.algorithms.anomaly_detector_algorithms.derivative_detector *)

(* Time series the detector is built on: points <<timestamp, value>> in    *)
(* the order TimeSeries.items() yields them.                               *)
Timestamps == {0, 3, 7}
Values == {0, 1, 5}
Points == Timestamps \X Values

(* geoist.snoopy.constants.DEFAULT_DERI_SMOOTHING_FACTOR *)
DEFAULT_DERI_SMOOTHING_FACTOR == SCALE \div 5

(* The smoothing_factor argument: None (0 here), or one half. *)
SmoothingArgs == {0, SCALE \div 2}

(* DerivativeDetector.__init__(time_series, None, smoothing_factor) *)
DerivativeDetectorInit(items, smoothing_factor) ==
    [smoothing_factor |-> IF smoothing_factor # 0 THEN smoothing_factor
                          ELSE DEFAULT_DERI_SMOOTHING_FACTOR,
     time_series_items |-> items,
     derivatives |-> <<>>]

(* Python's a / b on numbers: a float, or ZeroDivisionError. *)
PyDiv(a, b) ==
    IF b = 0 THEN [err |-> "ZeroDivisionError", v |-> 0]
    ELSE [err |-> "none", v |-> RDiv(a * SCALE, b)]

(* (value - pre_value) / td without the test of td. *)
RateUnguarded(item, pre) ==
    PyDiv(item[2] - pre[2], item[1] - pre[1])

(* td = timestamp - pre_timestamp;                                         *)
(* (value - pre_value) / td if td != 0 else value - pre_value              *)
Rate(item, pre) ==
    LET td == item[1] - pre[1]
    IN  IF td # 0 THEN PyDiv(item[2] - pre[2], td)
        ELSE [err |-> "none", v |-> Float(item[2] - pre[2])]

(* derivatives.insert(0, derivatives[0]) if derivatives is not empty. *)
InsertLast(derivatives) ==
    IF derivatives # <<>> THEN Append(derivatives, derivatives[1]) ELSE derivatives
InsertFirst(derivatives) ==
    IF derivatives # <<>> THEN <<derivatives[1]>> \o derivatives ELSE derivatives

(* DerivativeDetector._compute_derivatives() *)
compute_derivatives(d) ==
    LET items == d.time_series_items
        rates == [i \in 1..(Len(items) - 1) |-> Rate(items[i + 1], items[i])]
    IN  IF \E i \in DOMAIN rates : rates[i].err # "none"
        THEN [self |-> d, err |-> "ZeroDivisionError"]
        ELSE [self |-> [d EXCEPT !.derivatives =
                           InsertFirst([i \in DOMAIN rates |-> Abs(rates[i].v)])],
              err |-> "none"]

(* utils.compute_ema(smoothing_factor, points): the exponential moving     *)
(* average, ema[0] = points[0],                                            *)
(* ema[i] = smoothing_factor * points[i] + (1 - smoothing_factor) * ema[i-1] *)
RECURSIVE compute_ema(_, _)
compute_ema(smoothing_factor, points) ==
    IF Len(points) <= 1 THEN points
    ELSE LET ema == compute_ema(smoothing_factor, SubSeq(points, 1, Len(points) - 1))
         IN  Append(ema, FMul(smoothing_factor, points[Len(points)])
                         + FMul(Float(1) - smoothing_factor, ema[Len(ema)]))

RECURSIVE SumOver(_, _)
SumOver(f, keys) ==
    IF keys = {} THEN 0
    ELSE LET k == CHOOSE k \in keys : TRUE
         IN  f[k] + SumOver(f, keys \ {k})

(* numpy.std(list(scores.values())): sqrt(mean(abs(x - mean(x))**2)); nan  *)
(* of an empty list.                                                       *)
NpStd(scores) ==
    LET keys == DOMAIN scores
        n == Cardinality(keys)
        mean == RDiv(SumOver(scores, keys), n)
        sq == [k \in keys |-> FMul(scores[k] - mean, scores[k] - mean)]
    IN  IF n = 0 THEN NaN ELSE Num(FSqrt(RDiv(SumOver(sq, keys), n)))

(* The index of the last point with timestamp t: a dict keeps the value    *)
(* assigned last to a key.                                                 *)
LastIndexOf(items, t) ==
    CHOOSE i \in 1..Len(items) :
        /\ items[i][1] = t
        /\ \A j \in (i + 1)..Len(items) : items[j][1] # t

(* DerivativeDetector._set_scores(), up to the dict it hands to            *)
(* _denoise_scores.                                                        *)
set_scores(d) ==
    LET computed == compute_derivatives(d)
        obj == computed.self
        items == obj.time_series_items
        derivatives_ema == compute_ema(obj.smoothing_factor, obj.derivatives)
        keys == {items[i][1] : i \in 1..Len(items)}
        anom_scores == [t \in keys |->
            Abs(obj.derivatives[LastIndexOf(items, t)]
                - derivatives_ema[LastIndexOf(items, t)])]
        stdev == NpStd(anom_scores)
    IN  IF computed.err # "none"
        THEN [self |-> obj, err |-> computed.err, scores |-> <<>>]
        ELSE IF \E i \in 1..Len(items) : i > Len(obj.derivatives)
        THEN [self |-> obj, err |-> "IndexError", scores |-> <<>>]
        ELSE [self |-> obj, err |-> "none",
              scores |-> IF stdev.k = "num" /\ stdev.v # 0
                         THEN [t \in keys |-> RDiv(anom_scores[t] * SCALE, stdev.v)]
                         ELSE anom_scores]

---------------------------------------------------------------------------
(* The Homogeneous specification *)

NoDetector == DerivativeDetectorInit(<<>>, 0)
NoDCall == [op |-> "none", err |-> "none", scores |-> <<>>]

Init ==
    /\ \E ttres \in SeqsUpTo(DataVals, MaxRecs), recs \in SeqsUpTo(RecPoints, MaxRecs),
          v \in Velocities :
          self = HomogeneousInit(ttres, recs, v[1], v[2])
    /\ last = NoCall
    /\ memo = [call |-> NoCall, earlier |-> FALSE]
    /\ det = NoDetector
    /\ dcall = NoDCall

CallPredicted ==
    \E p \in Params, keep \in BOOLEAN :
        \E out \in {predicted(self, p)} :
            /\ self' = out.self
            /\ last' = CallRecord("predicted", p, out)
            /\ memo' = Remember(keep, memo, last')
            /\ UNCHANGED <<det, dcall>>

CallJacobian ==
    \E p \in Params, garbage \in Garbage, keep \in BOOLEAN :
        \E out \in {jacobian(self, p, garbage)} :
            /\ self' = out.self
            /\ last' = CallRecord("jacobian", p, out)
            /\ memo' = Remember(keep, memo, last')
            /\ UNCHANGED <<det, dcall>>

Next == CallPredicted \/ CallJacobian

Spec == Init /\ [][Next]_vars

---------------------------------------------------------------------------
(* The DerivativeDetector specification *)

InitDetector ==
    /\ \E items \in SeqsUpTo(Points, MaxLen), smoothing_factor \in SmoothingArgs :
          det = DerivativeDetectorInit(items, smoothing_factor)
    /\ dcall = NoDCall
    /\ self = HomogeneousInit(<<>>, <<>>, 2, 1)
    /\ last = NoCall
    /\ memo = [call |-> NoCall, earlier |-> FALSE]

RunComputeDerivatives ==
    \E out \in {compute_derivatives(det)} :
        /\ det' = out.self
        /\ dcall' = [op |-> "_compute_derivatives", err |-> out.err, scores |-> <<>>]
        /\ UNCHANGED <<self, last, memo>>

RunSetScores ==
    \E out \in {set_scores(det)} :
        /\ det' = out.self
        /\ dcall' = [op |-> "_set_scores", err |-> out.err, scores |-> out.scores]
        /\ UNCHANGED <<self, last, memo>>

NextDetector == RunComputeDerivatives \/ RunSetScores

SpecDetector == InitDetector /\ [][NextDetector]_vars

---------------------------------------------------------------------------
(* Properties of Homogeneous *)

(* The squared distance between a receiver and a 2-vector, in integers. *)
D2(rec, p) == (rec[1] - p[1]) * (rec[1] - p[1]) + (rec[2] - p[2]) * (rec[2] - p[2])

(* c <= b * sqrt(n) for integers c, b and n >= 0, decided without roots. *)
LeRoot(c, b, n) ==
    IF c <= 0 /\ b >= 0 THEN TRUE
    ELSE IF c > 0 /\ b <= 0 THEN FALSE
    ELSE IF c > 0 THEN c * c <= b * b * n
    ELSE c * c >= b * b * n

(* |a - b * sqrt(n)| <= t *)
NearRoot(a, b, n, t) == LeRoot(a - t, b, n) /\ LeRoot(-(a + t), -b, n)

(* The float f is within one unit of resolution of                         *)
(* (1/vs - 1/vp) * sqrt(n) = (vp - vs) / (vs * vp) * sqrt(n).              *)
IsAlphaTimesRoot(f, obj, n) ==
    NearRoot(f * obj.vs * obj.vp, SCALE * (obj.vp - obj.vs), n, obj.vs * obj.vp)

PredictedContract ==
    /\ last.err = "none"
    /\ Len(last.ret) = Len(self.recs)
    /\ \A i \in 1..Len(self.recs) :
          /\ IsAlphaTimesRoot(last.ret[i], self, D2(self.recs[i], last.p))
          /\ D2(self.recs[i], last.p) = 0 => last.ret[i] = 0

(* C1, as stated: for every object with N receivers and every 2-vector     *)
(* params, predicted(params) returns exactly N elements, element i being   *)
(* (1/vs - 1/vp) times the distance from receiver i to params, and 0 when  *)
(* params is at receiver i.                                                *)
C1_PredictedEveryObject ==
    (last.op = "predicted" /\ Len(last.p) = 2) => PredictedContract

(* C1, amended: the same for every object with at least one receiver. *)
C1_PredictedWithReceivers ==
    (last.op = "predicted" /\ Len(last.p) = 2 /\ Len(self.recs) >= 1)
        => PredictedContract

C1_Witness ==
    /\ last.op = "predicted"
    /\ last.err = "none"
    /\ Len(self.data) = Len(self.recs)
    /\ self.vp > self.vs
    /\ Len(last.ret) = 2
    /\ last.ret[1] = 0
    /\ last.ret[2] > 0

(* The float record e is within one unit of resolution of                  *)
(* -(1/vs - 1/vp) * delta / sqrt(n), n > 0.                                *)
IsJacobianEntry(e, obj, delta, n) ==
    LET a == e.v * obj.vs * obj.vp
        c == -SCALE * (obj.vp - obj.vs) * delta
        t == obj.vs * obj.vp
    IN  /\ e.k = "num"
        /\ LeRoot(-c, -(a - t), n)      \* (a - t) * sqrt(n) <= c
        /\ LeRoot(c, a + t, n)          \* c <= (a + t) * sqrt(n)

(* C2: for every 2-vector params at no receiver, jacobian(params) returns  *)
(* an N x 2 matrix whose row i holds -(1/vs - 1/vp)(x_i - x)/d_i and       *)
(* -(1/vs - 1/vp)(y_i - y)/d_i.  Stated for the objects with at least one  *)
(* receiver, those for which predicted returns its N elements (C1).        *)
C2_JacobianEntries ==
    (/\ last.op = "jacobian"
     /\ Len(last.p) = 2
     /\ Len(self.recs) >= 1
     /\ \A i \in 1..Len(self.recs) : D2(self.recs[i], last.p) # 0)
    => /\ last.err = "none"
       /\ Len(last.ret) = Len(self.recs)
       /\ \A i \in 1..Len(self.recs) :
             /\ Len(last.ret[i]) = 2
             /\ IsJacobianEntry(last.ret[i][1], self,
                                self.recs[i][1] - last.p[1], D2(self.recs[i], last.p))
             /\ IsJacobianEntry(last.ret[i][2], self,
                                self.recs[i][2] - last.p[2], D2(self.recs[i], last.p))

(* C4: when params is exactly at a receiver, jacobian(params) signals an   *)
(* error and returns no matrix carrying nan or infinite entries.           *)
C4_DegenerateDistanceSignalled ==
    (/\ last.op = "jacobian"
     /\ Len(last.p) = 2
     /\ \E i \in 1..Len(self.recs) : D2(self.recs[i], last.p) = 0)
    => /\ last.err # "none"
       /\ last.ret = NoResult

(* C5: predicted and jacobian raise an error and return nothing for every  *)
(* params whose length is not 2.                                           *)
C5_WrongLengthRaises ==
    (last.op # "none" /\ Len(last.p) # 2)
        => (last.err = "ValueError" /\ last.ret = NoResult)

C5_Witness ==
    /\ last.op = "jacobian"
    /\ Len(last.p) = 3
    /\ Len(self.recs) = 2
    /\ Len(self.data) = 2
    /\ last.err = "ValueError"

(* C6: in every object, and after any calls, the number of receivers is    *)
(* the number of observations (ndata) and the number of rows jacobian      *)
(* returns, and nparams is 2.                                              *)
C6_AlignedLengths ==
    /\ Len(self.recs) = Len(self.data)
    /\ self.ndata = Len(self.data)
    /\ self.nparams = 2
    /\ (last.op = "jacobian" /\ last.err = "none") => Len(last.ret) = Len(self.recs)

(* C7: a call leaves recs, data, vp and vs as they were and the caller's   *)
(* params as passed, and returns what an earlier call with the same params *)
(* returned.                                                               *)
C7_CallsArePure ==
    [][/\ self'.recs = self.recs
       /\ self'.data = self.data
       /\ self'.vp = self.vp
       /\ self'.vs = self.vs
       /\ last'.pAfter = last'.p
       /\ (memo'.call.op = last'.op /\ memo'.call.p = last'.p)
             => (memo'.call.err = last'.err /\ memo'.call.ret = last'.ret)]_vars

C7_Witness ==
    /\ memo.earlier
    /\ memo.call.op = "jacobian"
    /\ last.op = "jacobian"
    /\ memo.call.p = last.p
    /\ last.err = "none"
    /\ Len(self.recs) = 2
    /\ Len(self.data) = 2
    /\ Len(last.ret) = 2
    /\ \A i \in 1..2 : last.ret[i][1].k = "num" /\ last.ret[i][1].v # 0

---------------------------------------------------------------------------
(* Properties of DerivativeDetector *)

(* The float f is the absolute change from point pre to point item: the    *)
(* rate |value change / timestamp change| rounded to the resolution, or    *)
(* |value change| when the two timestamps are equal.                       *)
IsAbsChange(f, pre, item) ==
    LET td == item[1] - pre[1]
        dv == item[2] - pre[2]
    IN  /\ f >= 0
        /\ IF td = 0 THEN f = Abs(dv) * SCALE
           ELSE 2 * Abs(f * Abs(td) - Abs(dv) * SCALE) <= Abs(td)

(* C8: after _compute_derivatives on a series of at least two points,      *)
(* derivatives holds one entry per point, in point order: entry i >= 1 is  *)
(* the absolute change from point i-1 to point i, and entry 0 equals       *)
(* entry 1.                                                                *)
C8_OneDerivativePerPoint ==
    (dcall.op = "_compute_derivatives" /\ Len(det.time_series_items) >= 2)
    => /\ dcall.err = "none"
       /\ Len(det.derivatives) = Len(det.time_series_items)
       /\ \A i \in 2..Len(det.time_series_items) :
             IsAbsChange(det.derivatives[i], det.time_series_items[i - 1],
                         det.time_series_items[i])
       /\ det.derivatives[1] = det.derivatives[2]

C8_Witness ==
    /\ dcall.op = "_compute_derivatives"
    /\ Len(det.time_series_items) = 3
    /\ Len(det.derivatives) = 3
    /\ det.derivatives[1] = det.derivatives[2]
    /\ det.derivatives[2] > 0
    /\ det.derivatives[3] # det.derivatives[2]

(* |derivative_i - ema_i| for the point that sets the score of each        *)
(* timestamp.                                                              *)
RawScores(d) ==
    LET items == d.time_series_items
        ema == compute_ema(d.smoothing_factor, d.derivatives)
    IN  [t \in {items[i][1] : i \in 1..Len(items)} |->
            Abs(d.derivatives[LastIndexOf(items, t)] - ema[LastIndexOf(items, t)])]

(* C9: for every series of at least one point _set_scores completes        *)
(* without error and holds, before denoising, one non-negative score per   *)
(* timestamp: |derivative_i - ema_i| divided by the standard deviation of  *)
(* those scores when it is not zero, and undivided when it is.             *)
C9_ScoresForEverySeries ==
    (dcall.op = "_set_scores" /\ Len(det.time_series_items) >= 1)
    => /\ dcall.err = "none"
       /\ DOMAIN dcall.scores
             = {det.time_series_items[i][1] : i \in 1..Len(det.time_series_items)}
       /\ \A t \in DOMAIN dcall.scores :
             /\ dcall.scores[t] >= 0
             /\ LET raw == RawScores(det)
                    stdev == NpStd(raw).v
                IN  IF stdev = 0 THEN dcall.scores[t] = raw[t]
                    ELSE 2 * Abs(dcall.scores[t] * stdev - raw[t] * SCALE) <= stdev

(* C10: _compute_derivatives never divides by zero and never produces a    *)
(* negative entry: the entry of two consecutive points is                  *)
(* |(value - previous value) / (timestamp - previous timestamp)| when the  *)
(* timestamps differ, also when they decrease, and |value - previous       *)
(* value| when they are equal.                                             *)
C10_NoZeroDivisionNoNegative ==
    dcall.op # "none"
    => /\ dcall.err # "ZeroDivisionError"
       /\ \A i \in 1..Len(det.derivatives) : det.derivatives[i] >= 0
       /\ \A i \in 2..Len(det.derivatives) :
             LET td == det.time_series_items[i][1] - det.time_series_items[i - 1][1]
                 dv == det.time_series_items[i][2] - det.time_series_items[i - 1][2]
             IN  /\ td # 0 => 2 * Abs(det.derivatives[i] * Abs(td) - Abs(dv) * SCALE)
                                 <= Abs(td)
                 /\ td = 0 => det.derivatives[i] = Abs(dv) * SCALE

C10_Witness ==
    /\ dcall.op = "_compute_derivatives"
    /\ dcall.err = "none"
    /\ Len(det.time_series_items) = 3
    /\ Len(det.derivatives) = 3
    /\ det.time_series_items[2][1] = det.time_series_items[1][1]
    /\ det.time_series_items[2][2] < det.time_series_items[1][2]
    /\ det.time_series_items[3][1] < det.time_series_items[2][1]
    /\ det.derivatives[2] > 0
    /\ det.derivatives[3] > 0

=============================================================================
